---- MODULE Spec2Model ----
(***************************************************************************)
(* A model of heredity.py: exact inference by enumeration over a pedigree. *)
(*                                                                         *)
(* Numbers.  The program computes with Python floats built from the        *)
(* two-decimal constants of PROBS and the literal .5 by +, -, * and, in    *)
(* normalize only, by /.  The model computes the same expressions in exact *)
(* decimal arithmetic (Dec): a value is a finite decimal, held as base-10^4*)
(* limbs with a count of fractional limbs, always in canonical form, so    *)
(* two Dec values are equal as TLA+ values iff they are equal as numbers.  *)
(* Floating-point rounding is therefore outside the model: every equality  *)
(* stated below is an equality of real numbers.  The quotient bin * (1 /   *)
(* total) of normalize is held as the fraction [num, den].                 *)
(***************************************************************************)
EXTENDS Integers, Sequences, FiniteSets, TLC

VARIABLES
    people,         \* main / joint_probability: name -> record (mother, father, trait)
    probabilities,  \* the table of main, update and normalize
    pc,             \* position of the running specification
    tIdx,           \* main: index of have_trait in powerset(names)
    oIdx,           \* main: index of one_gene in powerset(names)
    wIdx,           \* main: index of two_genes in powerset(names - one_gene)
    calls,          \* history: the hypotheses passed to joint_probability/update, in order
    args,           \* the arguments of the last call of joint_probability
    result,         \* the value joint_probability returned
    error           \* the exception that ended the run, or None

vars == <<people, probabilities, pc, tIdx, oIdx, wIdx, calls, args, result, error>>

(***************************************************************************)
(* Bounds of the model.                                                    *)
(***************************************************************************)
MaxPeople == 2      \* rows of the file main reads
MaxLinked == 2      \* rows naming parents in a family given to joint_probability
MaxCalls == 2       \* calls of update on one table
MaxBin == 1         \* largest bin of a table given to normalize

(***************************************************************************)
(* Exact decimal arithmetic.                                               *)
(***************************************************************************)
Base == 100 * 100

None == "None"

RECURSIVE LStrip(_)
LStrip(a) ==
    IF a = <<>> THEN a
    ELSE IF a[Len(a)] = 0 THEN LStrip(SubSeq(a, 1, Len(a) - 1)) ELSE a

LHead(a) == IF a = <<>> THEN 0 ELSE Head(a)
LTail(a) == IF a = <<>> THEN a ELSE Tail(a)

RECURSIVE LAdd(_, _, _)
LAdd(a, b, c) ==
    IF a = <<>> /\ b = <<>>
    THEN IF c = 0 THEN <<>> ELSE <<c>>
    ELSE LET s == LHead(a) + LHead(b) + c
         IN  <<s % Base>> \o LAdd(LTail(a), LTail(b), s \div Base)

\* a - b - c for a >= b + c
RECURSIVE LSub(_, _, _)
LSub(a, b, c) ==
    IF a = <<>> /\ b = <<>>
    THEN <<>>
    ELSE LET d == LHead(a) - LHead(b) - c
         IN  IF d < 0
             THEN <<d + Base>> \o LSub(LTail(a), LTail(b), 1)
             ELSE <<d>> \o LSub(LTail(a), LTail(b), 0)

RECURSIVE LMulLimb(_, _, _)
LMulLimb(a, d, c) ==
    IF a = <<>>
    THEN IF c = 0 THEN <<>> ELSE <<c>>
    ELSE LET s == Head(a) * d + c
         IN  <<s % Base>> \o LMulLimb(Tail(a), d, s \div Base)

RECURSIVE LMul(_, _)
LMul(a, b) ==
    IF a = <<>> \/ b = <<>> THEN <<>>
    ELSE LAdd(LMulLimb(a, Head(b), 0), <<0>> \o LMul(a, Tail(b)), 0)

RECURSIVE LShift(_, _)
LShift(a, k) == IF k = 0 \/ a = <<>> THEN a ELSE LShift(<<0>> \o a, k - 1)

RECURSIVE DecLow(_, _)
DecLow(m, e) ==
    IF m = <<>> THEN [m |-> <<>>, e |-> 0]
    ELSE IF e > 0 /\ Head(m) = 0 THEN DecLow(Tail(m), e - 1)
    ELSE [m |-> m, e |-> e]

DecCanon(m, e) == DecLow(LStrip(m), e)

DecMax(i, j) == IF i >= j THEN i ELSE j

DecAdd(x, y) ==
    LET e == DecMax(x.e, y.e)
    IN  DecCanon(LAdd(LShift(x.m, e - x.e), LShift(y.m, e - y.e), 0), e)

DecSub(x, y) ==
    LET e == DecMax(x.e, y.e)
    IN  DecCanon(LSub(LShift(x.m, e - x.e), LShift(y.m, e - y.e), 0), e)

DecMul(x, y) == DecCanon(LMul(x.m, y.m), x.e + y.e)

DecInt(k) == DecCanon(<<k % Base, k \div Base>>, 0)
\* k hundredths, for 0 <= k < 100
Pct(k) == DecCanon(<<k * 100>>, 1)
DecZero == DecInt(0)
DecOne == DecInt(1)
Half == Pct(50)

(***************************************************************************)
(* PROBS (heredity.py lines 6-38), and the names a pedigree may use.       *)
(***************************************************************************)
PROBS ==
    [gene |-> [g \in 0..2 |->
                  IF g = 2 THEN Pct(1) ELSE IF g = 1 THEN Pct(3) ELSE Pct(96)],
     trait |-> [g \in 0..2 |-> [t \in BOOLEAN |->
                  IF g = 2 THEN (IF t THEN Pct(65) ELSE Pct(35))
                  ELSE IF g = 1 THEN (IF t THEN Pct(56) ELSE Pct(44))
                  ELSE (IF t THEN Pct(1) ELSE Pct(99))]],
     mutation |-> Pct(1)]

\* The rows of a CSV file, in file order; Ghost is a name no row has.
NameSeq == <<"Harry", "James", "Lily", "Arthur", "Molly">>
Ghost == "Ghost"
Names(n) == {NameSeq[i] : i \in 1..n}

\* The members of S in row order: the order in which a loop over a dict
\* visits them.  A loop over a set visits them in an order Python leaves
\* open; the model takes row order there too, every row being free to play
\* any part in Pedigrees, and SpecAcc lets the order vary.
SeqOf(S) == SelectSeq(NameSeq, LAMBDA x : x \in S)

(***************************************************************************)
(* joint_probability (lines 132-269).                                      *)
(***************************************************************************)
\* lines 164, 171, 201, 209, 242, 252
halfEither == DecAdd(DecMul(Half, DecSub(DecOne, PROBS.mutation)),
                     DecMul(Half, PROBS.mutation))

\* lines 163-175: momTemp / dadTemp of the one_gene loop
tempOne(parent, one_gene, two_genes) ==
    IF parent \in one_gene THEN halfEither
    ELSE IF parent \in two_genes THEN DecSub(DecOne, PROBS.mutation)
    ELSE PROBS.mutation

\* lines 200-213: momTemp / dadTemp of the two_genes loop
tempTwo(parent, one_gene, two_genes) ==
    IF parent \in one_gene THEN halfEither
    ELSE IF parent \in two_genes THEN DecSub(DecOne, PROBS.mutation)
    ELSE PROBS.mutation

\* A slip: the branches of the first two loops copied into the third unchanged.
tempZeroCopied(parent, one_gene, two_genes) ==
    IF parent \in one_gene THEN halfEither
    ELSE IF parent \in two_genes THEN DecSub(DecOne, PROBS.mutation)
    ELSE PROBS.mutation

\* lines 241-257: momTemp / dadTemp of the loop over the remaining people
tempZero(parent, one_gene, two_genes) ==
    IF parent \in one_gene THEN halfEither
    ELSE IF parent \in two_genes THEN PROBS.mutation
    ELSE DecSub(DecOne, PROBS.mutation)

\* A slip: only "mom and not dad" of line 178 is counted.
childProbOneMomOnly(ppl, person, one_gene, two_genes) ==
    LET momTemp == tempOne(ppl[person].mother, one_gene, two_genes)
        dadTemp == tempOne(ppl[person].father, one_gene, two_genes)
    IN  DecMul(momTemp, DecSub(DecOne, dadTemp))

\* lines 159-178: childProb of a person with parents, one copy
childProbOne(ppl, person, one_gene, two_genes) ==
    LET momTemp == tempOne(ppl[person].mother, one_gene, two_genes)
        dadTemp == tempOne(ppl[person].father, one_gene, two_genes)
    IN  DecAdd(DecMul(momTemp, DecSub(DecOne, dadTemp)),
               DecMul(dadTemp, DecSub(DecOne, momTemp)))

\* lines 197-215: childProb of a person with parents, two copies
childProbTwo(ppl, person, one_gene, two_genes) ==
    LET momTemp == tempTwo(ppl[person].mother, one_gene, two_genes)
        dadTemp == tempTwo(ppl[person].father, one_gene, two_genes)
    IN  DecMul(momTemp, dadTemp)

\* lines 237-261: childProb of a person with parents, no copy
childProbZero(ppl, person, one_gene, two_genes) ==
    LET momTemp == tempZero(ppl[person].mother, one_gene, two_genes)
        dadTemp == tempZero(ppl[person].father, one_gene, two_genes)
    IN  DecMul(momTemp, dadTemp)

noParents(ppl, person) ==
    ppl[person].mother = None /\ ppl[person].father = None

\* lines 150-185: the value appended for a person of one_gene
factorOne(ppl, person, one_gene, two_genes, have_trait) ==
    IF noParents(ppl, person)
    THEN DecMul(PROBS.gene[1], PROBS.trait[1][(person \in have_trait)])
    ELSE DecMul(childProbOne(ppl, person, one_gene, two_genes),
                PROBS.trait[1][(person \in have_trait)])

\* lines 188-222: the value appended for a person of two_genes
factorTwo(ppl, person, one_gene, two_genes, have_trait) ==
    IF noParents(ppl, person)
    THEN DecMul(PROBS.gene[2], PROBS.trait[2][(person \in have_trait)])
    ELSE DecMul(childProbTwo(ppl, person, one_gene, two_genes),
                PROBS.trait[2][(person \in have_trait)])

\* lines 225-268: the value appended for a person in neither set
factorZero(ppl, person, one_gene, two_genes, have_trait) ==
    IF noParents(ppl, person)
    THEN DecMul(PROBS.gene[0], PROBS.trait[0][(person \in have_trait)])
    ELSE DecMul(childProbZero(ppl, person, one_gene, two_genes),
                PROBS.trait[0][(person \in have_trait)])

\* The list probsToMultiply when joint_probability returns: the three loops
\* of lines 150, 188 and 225, each appending one value per person visited.
probsToMultiply(ppl, one_gene, two_genes, have_trait) ==
    LET ones == SeqOf(one_gene)
        twos == SeqOf(two_genes)
        rest == SeqOf(DOMAIN ppl \ (one_gene \cup two_genes))
    IN  [i \in 1..Len(ones) |->
            factorOne(ppl, ones[i], one_gene, two_genes, have_trait)]
        \o [i \in 1..Len(twos) |->
            factorTwo(ppl, twos[i], one_gene, two_genes, have_trait)]
        \o [i \in 1..Len(rest) |->
            factorZero(ppl, rest[i], one_gene, two_genes, have_trait)]

\* math.prod (line 4): the product of a list, 1 for the empty list
RECURSIVE productFrom(_, _)
productFrom(acc, s) ==
    IF s = <<>> THEN acc ELSE productFrom(DecMul(acc, Head(s)), Tail(s))

product(s) == productFrom(DecOne, s)

joint_probability(ppl, one_gene, two_genes, have_trait) ==
    product(probsToMultiply(ppl, one_gene, two_genes, have_trait))

(***************************************************************************)
(* update (lines 273-292).                                                 *)
(***************************************************************************)
\* A slip: `if` for `elif` at line 284, so a person of both sets is counted twice.
updatePersonNoElif(row, person, one_gene, two_genes, have_trait, p) ==
    LET t == person \in have_trait
        g1 == IF person \in one_gene THEN [row.gene EXCEPT ![1] = DecAdd(@, p)]
              ELSE row.gene
        g2 == IF person \in two_genes THEN [g1 EXCEPT ![2] = DecAdd(@, p)]
              ELSE [g1 EXCEPT ![0] = DecAdd(@, p)]
    IN  [gene |-> g2,
         trait |-> [row.trait EXCEPT ![t] = DecAdd(row.trait[t], p)]]

\* A slip: `=` for `+=` at lines 283-292.
updatePersonAssign(row, person, one_gene, two_genes, have_trait, p) ==
    LET g == IF person \in one_gene THEN 1
             ELSE IF person \in two_genes THEN 2 ELSE 0
        t == person \in have_trait
    IN  [gene |-> [row.gene EXCEPT ![g] = p],
         trait |-> [row.trait EXCEPT ![t] = p]]

\* A slip: line 285 adds to the one-copy bin, copied from line 283.
updatePersonTwoAsOne(row, person, one_gene, two_genes, have_trait, p) ==
    LET g == IF person \in one_gene THEN 1
             ELSE IF person \in two_genes THEN 1 ELSE 0
        t == person \in have_trait
    IN  [gene |-> [row.gene EXCEPT ![g] = DecAdd(row.gene[g], p)],
         trait |-> [row.trait EXCEPT ![t] = DecAdd(row.trait[t], p)]]

\* lines 282-292: the body of the loop, for one person
updatePerson(row, person, one_gene, two_genes, have_trait, p) ==
    LET g == IF person \in one_gene THEN 1
             ELSE IF person \in two_genes THEN 2 ELSE 0
        t == person \in have_trait
    IN  [gene |-> [row.gene EXCEPT ![g] = DecAdd(row.gene[g], p)],
         trait |-> [row.trait EXCEPT ![t] = DecAdd(row.trait[t], p)]]

\* line 281: the loop over the table, visiting the people in `order`
RECURSIVE updateIn(_, _, _, _, _, _)
updateIn(tab, order, one_gene, two_genes, have_trait, p) ==
    IF order = <<>> THEN tab
    ELSE updateIn(
            [tab EXCEPT ![Head(order)] =
                updatePerson(tab[Head(order)], Head(order),
                             one_gene, two_genes, have_trait, p)],
            Tail(order), one_gene, two_genes, have_trait, p)

update(tab, one_gene, two_genes, have_trait, p) ==
    updateIn(tab, SeqOf(DOMAIN tab), one_gene, two_genes, have_trait, p)

(***************************************************************************)
(* normalize (lines 295-313).  1 / total raises ZeroDivisionError when the *)
(* total is 0 (int or float); otherwise bin * (1 / total) is the fraction  *)
(* bin / total.                                                            *)
(***************************************************************************)
ZeroDivisionError == "ZeroDivisionError"

\* lines 306, 311: sf = 1 / total, for total # 0
scaleFactor(total) == [num |-> DecOne, den |-> total]

\* lines 308, 313: bin *= sf
scaled(bin, sf) == [num |-> DecMul(bin, sf.num), den |-> sf.den]

\* line 305: sum(probabilities[person]['gene'].values())
geneTotalOf(row) ==
    DecAdd(DecAdd(DecAdd(DecZero, row.gene[2]), row.gene[1]), row.gene[0])

\* line 310: sum(probabilities[person]['trait'].values())
traitTotalOf(row) ==
    DecAdd(DecAdd(DecZero, row.trait[TRUE]), row.trait[FALSE])

\* A slip: line 311 divides by geneTotal again.
RECURSIVE normalizeInOneTotal(_, _)
normalizeInOneTotal(tab, order) ==
    IF order = <<>> THEN [table |-> tab, error |-> None]
    ELSE
      LET person == Head(order)
          geneTotal == geneTotalOf(tab[person])
      IN  IF geneTotal = DecZero
          THEN [table |-> tab, error |-> ZeroDivisionError]
          ELSE
            LET genes == [g \in 0..2 |->
                            scaled(tab[person].gene[g], scaleFactor(geneTotal))]
                traits == [t \in BOOLEAN |->
                            scaled(tab[person].trait[t], scaleFactor(geneTotal))]
            IN  normalizeInOneTotal(
                    [tab EXCEPT ![person] = [gene |-> genes, trait |-> traits]],
                    Tail(order))

\* Division as in a language whose float division by zero raises nothing:
\* every bin is scaled, a zero total leaving bins with a zero denominator.
RECURSIVE normalizeInUnchecked(_, _)
normalizeInUnchecked(tab, order) ==
    IF order = <<>> THEN [table |-> tab, error |-> None]
    ELSE
      LET person == Head(order)
          genes == [g \in 0..2 |->
                      scaled(tab[person].gene[g],
                             scaleFactor(geneTotalOf(tab[person])))]
          traits == [t \in BOOLEAN |->
                      scaled(tab[person].trait[t],
                             scaleFactor(traitTotalOf(tab[person])))]
      IN  normalizeInUnchecked(
              [tab EXCEPT ![person] = [gene |-> genes, trait |-> traits]],
              Tail(order))

\* lines 303-313: the loop, visiting the people in `order`; the table as the
\* call leaves it and the exception raised, if any
RECURSIVE normalizeIn(_, _)
normalizeIn(tab, order) ==
    IF order = <<>> THEN [table |-> tab, error |-> None]
    ELSE
      LET person == Head(order)
          geneTotal == geneTotalOf(tab[person])
          traitTotal == traitTotalOf(tab[person])
      IN  IF geneTotal = DecZero
          THEN [table |-> tab, error |-> ZeroDivisionError]
          ELSE
            LET genes == [g \in 0..2 |->
                            scaled(tab[person].gene[g], scaleFactor(geneTotal))]
                tab1 == [tab EXCEPT ![person].gene = genes]
            IN  IF traitTotal = DecZero
                THEN [table |-> tab1, error |-> ZeroDivisionError]
                ELSE
                  LET traits == [t \in BOOLEAN |->
                         scaled(tab[person].trait[t], scaleFactor(traitTotal))]
                  IN  normalizeIn([tab1 EXCEPT ![person].trait = traits],
                                  Tail(order))

normalize(tab) == normalizeIn(tab, SeqOf(DOMAIN tab))

(***************************************************************************)
(* powerset (lines 120-129): the subsets of s, by size, each size in the   *)
(* order of itertools.combinations over list(s).                           *)
(***************************************************************************)
RECURSIVE combinations(_, _)
combinations(list, r) ==
    IF r = 0 THEN << {} >>
    ELSE IF Len(list) < r THEN <<>>
    ELSE LET with == combinations(Tail(list), r - 1)
         IN  [i \in 1..Len(with) |-> {Head(list)} \cup with[i]]
             \o combinations(Tail(list), r)

\* A slip: range(len(s)) for range(len(s) + 1) at line 127.
RECURSIVE chainFromShort(_, _)
chainFromShort(list, r) ==
    IF r >= Len(list) THEN <<>>
    ELSE combinations(list, r) \o chainFromShort(list, r + 1)

RECURSIVE chainFrom(_, _)
chainFrom(list, r) ==
    IF r > Len(list) THEN <<>>
    ELSE combinations(list, r) \o chainFrom(list, r + 1)

\* powerset, tabulated once over the sets of names the model uses
PowersetTable ==
    [s \in SUBSET Names(Len(NameSeq)) |-> chainFrom(SeqOf(s), 0)]

powerset(s) == PowersetTable[s]

(***************************************************************************)
(* main (lines 41-95) on the pedigree load_data returned.  load_data       *)
(* (lines 98-117) copies every row as it stands: it checks neither that    *)
(* the parents come in pairs nor that they are rows of the file.           *)
(***************************************************************************)
ParentField(n) == Names(n) \cup {None, Ghost}
Evidence == {"True", "False", None}

\* The files of n rows in which only the first row may name parents (any
\* two of: blank, a row of the file, a name that is no row), with every
\* combination of known and unknown traits.
Pedigrees(n) ==
    { [p \in Names(n) |->
          [mother |-> IF p = NameSeq[1] THEN mf[1] ELSE None,
           father |-> IF p = NameSeq[1] THEN mf[2] ELSE None,
           trait |-> ev[p]]] :
      mf \in ParentField(n) \X ParentField(n),
      ev \in [Names(n) -> Evidence] }

\* lines 49-62
zeroRow == [gene |-> [g \in 0..2 |-> DecZero],
            trait |-> [t \in BOOLEAN |-> DecZero]]
zeroTable(names) == [person \in names |-> zeroRow]

names == DOMAIN people

\* A slip: the truth value of the trait for `is not None` at line 70, so a
\* known False is taken for unknown.
fails_evidenceTruthy(ppl, have_trait) ==
    \E person \in DOMAIN ppl :
        /\ ppl[person].trait = "True"
        /\ (ppl[person].trait = "True") # (person \in have_trait)

\* lines 69-73
fails_evidence(ppl, have_trait) ==
    \E person \in DOMAIN ppl :
        /\ ppl[person].trait # None
        /\ (ppl[person].trait = "True") # (person \in have_trait)

NoArgs == [one_gene |-> {}, two_genes |-> {}, have_trait |-> {}]

Init ==
    /\ \E n \in 0..MaxPeople : people \in Pedigrees(n)
    /\ probabilities = zeroTable(DOMAIN people)
    /\ pc = "trait"
    /\ tIdx = 1
    /\ oIdx = 1
    /\ wIdx = 1
    /\ calls = <<>>
    /\ args = NoArgs
    /\ result = DecZero
    /\ error = None

\* lines 66-75: the next have_trait contradicts a known trait: continue
FailsEvidence ==
    /\ pc = "trait"
    /\ tIdx <= Len(powerset(names))
    /\ fails_evidence(people, powerset(names)[tIdx])
    /\ tIdx' = tIdx + 1
    /\ UNCHANGED <<people, probabilities, pc, oIdx, wIdx, calls, args, result, error>>

\* lines 66-78: the next have_trait agrees with the evidence: enter the loops
PassesEvidence ==
    /\ pc = "trait"
    /\ tIdx <= Len(powerset(names))
    /\ ~fails_evidence(people, powerset(names)[tIdx])
    /\ pc' = "genes"
    /\ oIdx' = 1
    /\ wIdx' = 1
    /\ UNCHANGED <<people, probabilities, tIdx, calls, args, result, error>>

\* lines 78-83: one pass of the inner loop body, and the step of the loops
Score ==
    /\ pc = "genes"
    /\ LET have_trait == powerset(names)[tIdx]
           ones == powerset(names)
           one_gene == ones[oIdx]
           twos == powerset(names \ one_gene)
           two_genes == twos[wIdx]
           p == joint_probability(people, one_gene, two_genes, have_trait)
       IN  /\ probabilities' = update(probabilities, one_gene, two_genes, have_trait, p)
           /\ args' = [one_gene |-> one_gene, two_genes |-> two_genes,
                       have_trait |-> have_trait]
           /\ result' = p
           /\ calls' = Append(calls, args')
           /\ IF wIdx < Len(twos)
              THEN wIdx' = wIdx + 1 /\ UNCHANGED <<oIdx, tIdx, pc>>
              ELSE IF oIdx < Len(ones)
              THEN wIdx' = 1 /\ oIdx' = oIdx + 1 /\ UNCHANGED <<tIdx, pc>>
              ELSE wIdx' = 1 /\ oIdx' = 1 /\ tIdx' = tIdx + 1 /\ pc' = "trait"
    /\ UNCHANGED <<people, error>>

\* line 66: powerset(names) is exhausted
ExitLoop ==
    /\ pc = "trait"
    /\ tIdx > Len(powerset(names))
    /\ pc' = "normalize"
    /\ UNCHANGED <<people, probabilities, tIdx, oIdx, wIdx, calls, args, result, error>>

\* lines 86-95: normalize, then print (printing changes no state)
Normalize ==
    /\ pc = "normalize"
    /\ LET r == normalize(probabilities)
       IN  /\ probabilities' = r.table
           /\ error' = r.error
           /\ pc' = IF r.error = None THEN "done" ELSE "raised"
    /\ UNCHANGED <<people, tIdx, oIdx, wIdx, calls, args, result>>

Next == FailsEvidence \/ PassesEvidence \/ Score \/ ExitLoop \/ Normalize

Spec == Init /\ [][Next]_vars

(***************************************************************************)
(* joint_probability called on its own (specification SpecJoint): a        *)
(* family of up to three rows in which at most MaxLinked rows name their   *)
(* parents, both of them rows of the file and not the same row, and a      *)
(* hypothesis with one_gene and two_genes disjoint.                        *)
(***************************************************************************)
FamilyRows == <<"Harry", "James", "Lily">>

ParentPairs(n) ==
    {<<None, None>>} \cup {mf \in Names(n) \X Names(n) : mf[1] # mf[2]}

JointPedigrees(n) ==
    { [p \in Names(n) |->
          [mother |-> mf[p][1], father |-> mf[p][2], trait |-> None]] :
      mf \in {f \in [Names(n) -> ParentPairs(n)] :
                 Cardinality({p \in Names(n) : f[p] # <<None, None>>})
                     <= MaxLinked} }

Hypotheses(S) ==
    { [one_gene |-> o, two_genes |-> w, have_trait |-> h] :
      o \in SUBSET S, w \in SUBSET S, h \in SUBSET S }

JointInit ==
    /\ \E n \in 0..Len(FamilyRows) :
          /\ people \in JointPedigrees(n)
          /\ args \in {a \in Hypotheses(Names(n)) :
                          a.one_gene \cap a.two_genes = {}}
    /\ probabilities = zeroTable({})
    /\ pc = "call"
    /\ tIdx = 1
    /\ oIdx = 1
    /\ wIdx = 1
    /\ calls = <<>>
    /\ result = DecZero
    /\ error = None

JointCall ==
    /\ pc = "call"
    /\ result' = joint_probability(people, args.one_gene, args.two_genes,
                                   args.have_trait)
    /\ calls' = Append(calls, args)
    /\ pc' = "returned"
    /\ UNCHANGED <<people, probabilities, tIdx, oIdx, wIdx, args, error>>

JointNext == JointCall

SpecJoint == JointInit /\ [][JointNext]_vars

(***************************************************************************)
(* update called on its own (specification SpecAcc): the table of two      *)
(* people without parents, all zero at first, updated up to MaxCalls times *)
(* with any three subsets of the people and the mass joint_probability     *)
(* gives them, the rows visited in any order.  Here `calls` is the bag of  *)
(* the calls made so far.                                                  *)
(***************************************************************************)
AccRows == {NameSeq[1], NameSeq[2]}
AccPedigree ==
    [p \in AccRows |-> [mother |-> None, father |-> None, trait |-> None]]

Orders(S) ==
    {o \in [1..Cardinality(S) -> S] : \A i, j \in DOMAIN o : o[i] = o[j] => i = j}

AddToBag(bag, c) ==
    IF c \in DOMAIN bag THEN [bag EXCEPT ![c] = @ + 1] ELSE bag @@ (c :> 1)

RECURSIVE BagSize(_)
BagSize(bag) ==
    IF DOMAIN bag = {} THEN 0
    ELSE LET c == CHOOSE x \in DOMAIN bag : TRUE
         IN  bag[c] + BagSize([x \in DOMAIN bag \ {c} |-> bag[x]])

AccInit ==
    /\ people = AccPedigree
    /\ probabilities = zeroTable(AccRows)
    /\ pc = "update"
    /\ tIdx = 1
    /\ oIdx = 1
    /\ wIdx = 1
    /\ calls = [c \in {} |-> 0]
    /\ args = NoArgs
    /\ result = DecZero
    /\ error = None

AccUpdate ==
    /\ pc = "update"
    /\ BagSize(calls) < MaxCalls
    /\ \E h \in Hypotheses(AccRows), order \in Orders(AccRows) :
        LET p == joint_probability(people, h.one_gene, h.two_genes, h.have_trait)
        IN
          /\ probabilities' = updateIn(probabilities, order, h.one_gene,
                                       h.two_genes, h.have_trait, p)
          /\ calls' = AddToBag(calls, [one_gene |-> h.one_gene,
                                       two_genes |-> h.two_genes,
                                       have_trait |-> h.have_trait, p |-> p])
    /\ UNCHANGED <<people, pc, tIdx, oIdx, wIdx, args, result, error>>

AccNext == AccUpdate

SpecAcc == AccInit /\ [][AccNext]_vars

(***************************************************************************)
(* normalize called on its own (specification SpecNorm): any table of two  *)
(* rows whose bins are whole numbers up to MaxBin.  `args` keeps the table *)
(* as it was given.                                                        *)
(***************************************************************************)
Bins == {DecInt(k) : k \in 0..MaxBin}

Tables(rows) ==
    [rows -> [gene : [0..2 -> Bins], trait : [BOOLEAN -> Bins]]]

NormInit ==
    /\ people = [p \in {} |-> None]
    /\ probabilities \in Tables(AccRows)
    /\ args = probabilities
    /\ pc = "call"
    /\ tIdx = 1
    /\ oIdx = 1
    /\ wIdx = 1
    /\ calls = <<>>
    /\ result = DecZero
    /\ error = None

NormCall ==
    /\ pc = "call"
    /\ LET r == normalize(probabilities)
       IN  /\ probabilities' = r.table
           /\ error' = r.error
           /\ pc' = IF r.error = None THEN "returned" ELSE "raised"
    /\ UNCHANGED <<people, tIdx, oIdx, wIdx, calls, args, result>>

NormNext == NormCall

SpecNorm == NormInit /\ [][NormNext]_vars

(***************************************************************************)
(* Properties of joint_probability (specification SpecJoint).              *)
(***************************************************************************)
assigned(a, person) ==
    IF person \in a.one_gene THEN 1 ELSE IF person \in a.two_genes THEN 2 ELSE 0

transmit(g) ==
    IF g = 2 THEN DecSub(DecOne, PROBS.mutation)
    ELSE IF g = 1 THEN DecAdd(DecMul(Half, DecSub(DecOne, PROBS.mutation)),
                              DecMul(Half, PROBS.mutation))
    ELSE PROBS.mutation

inherited(g, m, f) ==
    IF g = 0 THEN DecMul(DecSub(DecOne, m), DecSub(DecOne, f))
    ELSE IF g = 1 THEN DecAdd(DecMul(m, DecSub(DecOne, f)),
                              DecMul(f, DecSub(DecOne, m)))
    ELSE DecMul(m, f)

personFactor(ppl, a, person) ==
    LET g == assigned(a, person)
        G == IF noParents(ppl, person) THEN PROBS.gene[g]
             ELSE inherited(g, transmit(assigned(a, ppl[person].mother)),
                               transmit(assigned(a, ppl[person].father)))
    IN  DecMul(G, PROBS.trait[g][(person \in a.have_trait)])

RECURSIVE factorProduct(_, _, _)
factorProduct(ppl, a, S) ==
    IF S = {} THEN DecOne
    ELSE LET person == CHOOSE x \in S : TRUE
         IN  DecMul(personFactor(ppl, a, person),
                    factorProduct(ppl, a, S \ {person}))

BothOrNoParents(ppl) ==
    \A person \in DOMAIN ppl :
        \/ noParents(ppl, person)
        \/ ppl[person].mother \in DOMAIN ppl /\ ppl[person].father \in DOMAIN ppl

\* C1: for a pedigree whose rows have both parents (rows of the pedigree) or
\* none, and disjoint one_gene and two_genes, joint_probability returns the
\* product, one factor per person, of G(person) * PROBS.trait[g][t], with G
\* the prior for a person without parents and the inheritance formula of the
\* parents' transmit-probabilities otherwise.
C1_JointIsProductOfFactors ==
    (/\ pc = "returned"
     /\ BothOrNoParents(people)
     /\ args.one_gene \cap args.two_genes = {})
    => result = factorProduct(people, args, DOMAIN people)

\* A zero-copy child of a one-copy mother and a two-copy father who are
\* themselves without parents.
C1_Witness ==
    /\ pc = "returned"
    /\ \E child \in DOMAIN people :
          /\ people[child].mother \in args.one_gene
          /\ people[child].father \in args.two_genes
          /\ noParents(people, people[child].mother)
          /\ noParents(people, people[child].father)
          /\ child \notin args.one_gene \cup args.two_genes
    /\ result = factorProduct(people, args, DOMAIN people)

\* C10: for a person with both parents, whatever gene counts the hypothesis
\* gives the mother and the father, the zero-copy, one-copy and two-copy
\* probabilities of the three branches (before the trait factor) sum to 1.
C10_BranchesSumToOne ==
    pc = "returned" =>
        \A person \in DOMAIN people :
            (people[person].mother # None /\ people[person].father # None) =>
                DecAdd(DecAdd(childProbZero(people, person, args.one_gene, args.two_genes),
                              childProbOne(people, person, args.one_gene, args.two_genes)),
                       childProbTwo(people, person, args.one_gene, args.two_genes))
                = DecOne

\* A person whose mother has two copies and whose father has none.
C10_Witness ==
    /\ pc = "returned"
    /\ \E person \in DOMAIN people :
          /\ people[person].mother \in args.two_genes
          /\ people[person].father \in DOMAIN people
                                      \ (args.one_gene \cup args.two_genes)
          /\ DecAdd(DecAdd(childProbZero(people, person, args.one_gene, args.two_genes),
                           childProbOne(people, person, args.one_gene, args.two_genes)),
                    childProbTwo(people, person, args.one_gene, args.two_genes))
             = DecOne

(***************************************************************************)
(* Properties of update (specification SpecAcc).                           *)
(***************************************************************************)
RECURSIVE MassSum(_)
MassSum(bag) ==
    IF DOMAIN bag = {} THEN DecZero
    ELSE LET c == CHOOSE x \in DOMAIN bag : TRUE
         IN  DecAdd(DecMul(DecInt(bag[c]), c.p),
                    MassSum([x \in DOMAIN bag \ {c} |-> bag[x]]))

GeneSum(row) == DecAdd(row.gene[0], DecAdd(row.gene[1], row.gene[2]))
TraitSum(row) == DecAdd(row.trait[TRUE], row.trait[FALSE])

\* C6: from the all-zero table, after any calls of update, every person's
\* three gene bins and two trait bins both sum to the sum of the masses added.
C6_TotalsEqualMassAdded ==
    \A person \in DOMAIN probabilities :
        /\ GeneSum(probabilities[person]) = MassSum(calls)
        /\ TraitSum(probabilities[person]) = MassSum(calls)

\* Two or more calls, one of them with a person in both one_gene and two_genes.
C6_Witness ==
    /\ BagSize(calls) >= 2
    /\ \E c \in DOMAIN calls : c.one_gene \cap c.two_genes # {}
    /\ \A person \in DOMAIN probabilities :
          GeneSum(probabilities[person]) = MassSum(calls)

\* The calls of a bag applied in one fixed order, each over the rows in row order.
RECURSIVE replay(_, _)
replay(tab, bag) ==
    IF DOMAIN bag = {} THEN tab
    ELSE LET c == CHOOSE x \in DOMAIN bag : TRUE
             rest == IF bag[c] = 1 THEN [x \in DOMAIN bag \ {c} |-> bag[x]]
                     ELSE [bag EXCEPT ![c] = @ - 1]
         IN  replay(update(tab, c.one_gene, c.two_genes, c.have_trait, c.p), rest)

\* C9: the table reached by applying the calls in whatever order they came,
\* each over the rows in whatever order, is the table the same calls give in
\* one fixed order, and so is what normalize makes of it.
C9_OrderIndependent ==
    LET fixed == replay(zeroTable(AccRows), calls)
    IN  /\ probabilities = fixed
        /\ normalize(probabilities) = normalize(fixed)

\* Two different calls with different masses have been applied.
C9_Witness ==
    /\ \E c, d \in DOMAIN calls :
          c.p # d.p /\ c.one_gene # d.one_gene /\ c.have_trait # d.have_trait
    /\ probabilities = replay(zeroTable(AccRows), calls)

(***************************************************************************)
(* Properties of normalize (specification SpecNorm).                       *)
(***************************************************************************)
AllPositive(tab) ==
    \A person \in DOMAIN tab :
        GeneSum(tab[person]) # DecZero /\ TraitSum(tab[person]) # DecZero

IsQuot(b) == "den" \in DOMAIN b

QuotAdd(x, y) ==
    [num |-> DecAdd(DecMul(x.num, y.den), DecMul(y.num, x.den)),
     den |-> DecMul(x.den, y.den)]

QuotIsOne(q) == q.den # DecZero /\ q.num = q.den

Finite(b) == IsQuot(b) => b.den # DecZero

\* C5: normalize on a table whose gene bins and trait bins have positive
\* sums for every person returns, and leaves every person's three gene bins
\* summing to 1 and two trait bins summing to 1.
C5_NormalizedSumsToOne ==
    (pc # "call" /\ AllPositive(args)) =>
        /\ pc = "returned"
        /\ \A person \in DOMAIN probabilities :
              LET row == probabilities[person]
              IN  /\ QuotIsOne(QuotAdd(row.gene[0],
                                       QuotAdd(row.gene[1], row.gene[2])))
                  /\ QuotIsOne(QuotAdd(row.trait[TRUE], row.trait[FALSE]))

\* A table with a person whose gene bins differ has been normalized.
C5_Witness ==
    /\ pc = "returned"
    /\ AllPositive(args)
    /\ \E person \in DOMAIN args :
          /\ args[person].gene[0] # args[person].gene[1]
          /\ GeneSum(args[person]) # TraitSum(args[person])
          /\ probabilities[person].gene[1].den = GeneSum(args[person])

\* C7: normalize on a table in which some person's gene bins or trait bins
\* sum to zero fails with an error (ZeroDivisionError), and no bin is left
\* with an undefined or non-finite value.
C7_ZeroTotalRaises ==
    (pc # "call" /\ ~AllPositive(args)) =>
        /\ pc = "raised"
        /\ error = ZeroDivisionError
        /\ \A person \in DOMAIN probabilities :
              /\ \A g \in 0..2 : Finite(probabilities[person].gene[g])
              /\ \A t \in BOOLEAN : Finite(probabilities[person].trait[t])

\* The first row was scaled, then the second row's zero total raised.
C7_Witness ==
    /\ pc = "raised"
    /\ error = ZeroDivisionError
    /\ IsQuot(probabilities[NameSeq[1]].trait[TRUE])
    /\ GeneSum(args[NameSeq[2]]) = DecZero
    /\ probabilities[NameSeq[2]] = args[NameSeq[2]]

(***************************************************************************)
(* Properties of main (specification Spec).                                *)
(***************************************************************************)
Range(seq) == {seq[i] : i \in DOMAIN seq}

Agrees(ppl, have_trait) ==
    \A person \in DOMAIN ppl :
        ppl[person].trait # None =>
            ((person \in have_trait) <=> (ppl[person].trait = "True"))

\* The total assignments that agree with the observed traits.
Consistent(ppl) ==
    {h \in Hypotheses(DOMAIN ppl) :
        h.one_gene \cap h.two_genes = {} /\ Agrees(ppl, h.have_trait)}

RECURSIVE Pow(_, _)
Pow(b, k) == IF k = 0 THEN 1 ELSE b * Pow(b, k - 1)

LoopDone == pc \in {"normalize", "done", "raised"}

\* C2: the loop passes nothing but evidence-consistent assignments, none of
\* them twice, and when it ends it has passed every one of them: 2^u * 3^n
\* hypotheses, a single empty one for n = 0.
C2_EnumeratesEachOnce ==
    /\ \A i \in DOMAIN calls :
          /\ calls[i].one_gene \cap calls[i].two_genes = {}
          /\ calls[i].one_gene \cup calls[i].two_genes \cup calls[i].have_trait
                \subseteq names
          /\ Agrees(people, calls[i].have_trait)
    /\ Cardinality(Range(calls)) = Len(calls)
    /\ LoopDone =>
          /\ Range(calls) = Consistent(people)
          /\ Len(calls) =
                Pow(2, Cardinality({q \in names : people[q].trait = None}))
                * Pow(3, Cardinality(names))
          /\ names = {} => calls = <<NoArgs>>

\* The loop has ended on two rows, one of them of unknown trait.
C2_Witness ==
    /\ pc = "normalize"
    /\ Cardinality(names) = 2
    /\ Cardinality({q \in names : people[q].trait = None}) = 1
    /\ Len(calls) = 18

\* The (hypothesis, joint probability) pairs of the consistent hypotheses.
Scored(ppl) ==
    {<<h, joint_probability(ppl, h.one_gene, h.two_genes, h.have_trait)>> :
        h \in Consistent(ppl)}

RECURSIVE MassOf(_)
MassOf(pairs) ==
    IF pairs = {} THEN DecZero
    ELSE LET hp == CHOOSE x \in pairs : TRUE
         IN  DecAdd(hp[2], MassOf(pairs \ {hp}))

\* C3: when the loop has ended and normalize has not been called, each gene
\* bin and each trait bin of each person holds the sum of joint_probability
\* over the evidence-consistent hypotheses that give the person that value.
C3_BinsAreMarginalSums ==
    pc = "normalize" =>
        LET all == Scored(people)
        IN  \A person \in names :
              /\ \A g \in 0..2 :
                    probabilities[person].gene[g] =
                        MassOf({hp \in all : assigned(hp[1], person) = g})
              /\ \A t \in BOOLEAN :
                    probabilities[person].trait[t] =
                        MassOf({hp \in all : (person \in hp[1].have_trait) = t})

\* The loop has ended for a child of unknown trait whose parents are rows.
C3_Witness ==
    /\ pc = "normalize"
    /\ \E child \in names :
          /\ people[child].mother \in names
          /\ people[child].father \in names
          /\ people[child].mother # people[child].father
          /\ people[child].trait = None
          /\ probabilities[child].trait[TRUE] # DecZero
          /\ probabilities[child].gene[2] # DecZero

\* C4: every hypothesis passed gives each person of known trait the observed
\* value, so the bin of the opposite value of such a person stays empty.
C4_EvidenceRespected ==
    /\ \A i \in DOMAIN calls : \A person \in names :
          people[person].trait # None =>
              ((person \in calls[i].have_trait) <=> (people[person].trait = "True"))
    /\ pc \in {"trait", "genes", "normalize"} =>
          \A person \in names :
              people[person].trait # None =>
                  probabilities[person].trait[(people[person].trait # "True")]
                      = DecZero

\* The loop has ended with one trait known true, one known false.
C4_Witness ==
    /\ pc = "normalize"
    /\ \E q, r \in names :
          /\ people[q].trait = "True"
          /\ people[r].trait = "False"
          /\ probabilities[q].trait[TRUE] # DecZero
          /\ probabilities[r].trait[FALSE] # DecZero

\* A row with exactly one parent, a parent that is no row, or a row that is
\* its own ancestor.
RECURSIVE AncestorsWithin(_, _, _)
AncestorsWithin(ppl, S, k) ==
    IF k = 0 THEN S
    ELSE AncestorsWithin(ppl,
            S \cup UNION {{ppl[q].mother, ppl[q].father} \cap DOMAIN ppl :
                          q \in S \cap DOMAIN ppl},
            k - 1)

InvalidPedigree(ppl) ==
    \E person \in DOMAIN ppl :
        \/ (ppl[person].mother = None) # (ppl[person].father = None)
        \/ ppl[person].mother \notin DOMAIN ppl \cup {None}
        \/ ppl[person].father \notin DOMAIN ppl \cup {None}
        \/ person \in AncestorsWithin(ppl,
                          {ppl[person].mother, ppl[person].father} \cap DOMAIN ppl,
                          Cardinality(DOMAIN ppl))

\* C8: on an invalid pedigree the run ends with an InvalidPedigree error
\* before any hypothesis is scored: joint_probability and update are never
\* called and no posterior is produced.
C8_InvalidPedigreeRejected ==
    InvalidPedigree(people) => (calls = <<>> /\ pc # "done")

====
